---- MODULE Spec2Model ----
(***************************************************************************)
(* Model of src/components/input/Checklist.js: a stateless React component *)
(* that renders one checkbox per option and, on a change event, calls      *)
(* setProps({value: newValue}) with a freshly built array.                 *)
(*                                                                         *)
(* JavaScript values are records [t, n, s]: t is the typeof tag, n the     *)
(* number (or 0/1 for a boolean), s the text of a string.  Arrays          *)
(* live in a heap (reference -> contents) so that aliasing and in-place    *)
(* mutation are observable.                                                *)
(***************************************************************************)
EXTENDS Integers, Sequences, FiniteSets, TLC

VARIABLES props, heap, items, calls, initial, applied

vars == <<props, heap, items, calls, initial, applied>>

(* ---------------- bounds ---------------- *)
MaxLen == 2
MaxOptions == 2

(* ---------------- JavaScript values ---------------- *)
Undefined == [t |-> "undefined", n |-> 0, s |-> ""]
Num(k) == [t |-> "number", n |-> k, s |-> ""]
Str(cs) == [t |-> "string", n |-> 0, s |-> cs]
Bool(b) == [t |-> "boolean", n |-> IF b THEN 1 ELSE 0, s |-> ""]

Truthy(v) ==
  CASE v.t = "undefined" -> FALSE
    [] v.t = "number" -> v.n # 0
    [] v.t = "string" -> v.s # ""
    [] v.t = "boolean" -> v.n = 1

\* a && b
And(a, b) == IF Truthy(a) THEN b ELSE a

\* Boolean(v)
Boolean(v) == Bool(Truthy(v))

DigitChar(d) ==
  CASE d = 0 -> "0" [] d = 1 -> "1" [] d = 2 -> "2" [] d = 3 -> "3"
    [] d = 4 -> "4" [] d = 5 -> "5" [] d = 6 -> "6" [] d = 7 -> "7"
    [] d = 8 -> "8" [] d = 9 -> "9"

RECURSIVE NumberToString(_)
NumberToString(k) ==
  IF k < 0 THEN "-" \o NumberToString(0 - k)
  ELSE IF k < 10 THEN DigitChar(k)
  ELSE NumberToString(k \div 10) \o DigitChar(k % 10)

\* string conversion of a template-literal substitution `${v}`
TemplateString(v) ==
  CASE v.t = "string" -> v.s
    [] v.t = "number" -> NumberToString(v.n)
    [] v.t = "boolean" -> IF v.n = 1 THEN "true"
                          ELSE "false"
    [] v.t = "undefined" -> "undefined"

\* classnames(...args): truthy strings and numbers joined by one space
RECURSIVE classNames(_)
classNames(args) ==
  IF args = <<>> THEN ""
  ELSE LET a == Head(args)
           rest == classNames(Tail(args))
           keep == Truthy(a) /\ a.t \in {"string", "number"}
       IN IF ~keep THEN rest
          ELSE IF rest = "" THEN TemplateString(a)
          ELSE TemplateString(a) \o " " \o rest

(* ---------------- ramda ---------------- *)
\* variant of contains comparing the string forms of the values
containsCoerced(a, list) ==
  \E k \in 1..Len(list) : TemplateString(list[k]) = TemplateString(a)

\* R.contains(a, list): membership by R.equals (no coercion)
contains(a, list) == \E k \in 1..Len(list) : list[k] = a

\* variant of without dropping only the first element that is in xs
withoutFirst(xs, list) ==
  LET hit == {k \in 1..Len(list) : contains(list[k], xs)}
  IN IF hit = {} THEN list
     ELSE LET f == CHOOSE k \in hit : \A j \in hit : k <= j
          IN SubSeq(list, 1, f - 1) \o SubSeq(list, f + 1, Len(list))

\* R.without(xs, list): a new list without the elements that are in xs
RECURSIVE without(_, _)
without(xs, list) ==
  IF list = <<>> THEN <<>>
  ELSE IF contains(Head(list), xs) THEN without(xs, Tail(list))
  ELSE <<Head(list)>> \o without(xs, Tail(list))

\* variant of append putting el first
prepend(el, list) == <<el>> \o list

\* R.append(el, list): a new list with el at the end
append(el, list) == list \o <<el>>

(* ---------------- input domains ---------------- *)
Values == {Num(1), Num(2), Str("1")}

\* the values initial selections are built from
SelectionValues == {Num(1), Str("1")}

\* display label used for each value in the enumerated options
LabelOf(v) ==
  CASE v = Num(1) -> Str("A")
    [] v = Num(2) -> Str("B")
    [] OTHER -> Str("C")

\* options without a disabled key
Option == {[label |-> LabelOf(v), value |-> v, disabled |-> Undefined] : v \in Values}

\* options of the rendering specification, disabled ones among them
RenderOption ==
  {[label |-> LabelOf(v), value |-> v, disabled |-> d] :
     v \in {Num(1), Num(2)}, d \in {Undefined, Bool(TRUE)}}

SeqsUpTo(S, n) == UNION {[1..m -> S] : m \in 0..n}

\* option lists of at most n options drawn from S, with unique values
OptionLists(S, n) ==
  {os \in SeqsUpTo(S, n) :
     \A j, k \in 1..Len(os) : os[j].value = os[k].value => j = k}

(* ---------------- Checklist ---------------- *)
\* string literals of the source
FormCheck == "form-check"
FormCheckInline == FormCheck \o "-inline"
FormCheckInput == FormCheck \o "-input"
FormCheckLabel == FormCheck \o "-label"
Switch == "switch"
Checkbox == "checkbox"

\* const checked = contains(option.value, value)
checked(option, value) == Bool(contains(option.value, value))

\* variant of customMode that ignores the id
customModeNoId(p) == Truthy(p.custom)

\* if (id && custom)
customMode(p) == Truthy(And(p.id, p.custom))

\* variant of disabledAttr that never disables
disabledAttrNever(option) == Bool(FALSE)

\* disabled={Boolean(option.disabled)}
disabledAttr(option) == Boolean(option.disabled)

\* classNames(labelClassName, checked && labelCheckedClassName)
labelClass(p, isChecked) ==
  classNames(<<p.labelClassName, And(isChecked, p.labelCheckedClassName)>>)

\* JSX attribute list -> value of one attribute; when a name is written
\* twice the later one wins, absent names are undefined
Attr(attrs, name) ==
  LET idx == {k \in 1..Len(attrs) : attrs[k][1] = name}
  IN IF idx = {} THEN Undefined
     ELSE attrs[CHOOSE k \in idx : \A j \in idx : j <= k][2]

\* the <CustomInput .../> element of one option (custom branch)
CustomInputElement(option, p, value) ==
  LET isChecked == checked(option, value)
      attrs == <<
        <<"id", Str("_" \o TemplateString(p.id) \o "-"
                    \o TemplateString(option.value))>>,
        <<"checked", isChecked>>,
        <<"className", p.inputClassName>>,
        <<"disabled", disabledAttr(option)>>,
        <<"type", IF Truthy(p.switch) THEN Str(Switch)
                  ELSE Str(Checkbox)>>,
        <<"label", option.label>>,
        <<"className", Str(labelClass(p, isChecked))>>,
        <<"inline", p.inline>>,
        <<"key", option.value>> >>
  IN [component |-> "CustomInput",
      key |-> Attr(attrs, "key"),
      id |-> Attr(attrs, "id"),
      checked |-> Attr(attrs, "checked"),
      className |-> Attr(attrs, "className"),
      inputClassName |-> Undefined,
      labelClassName |-> Undefined,
      disabled |-> Attr(attrs, "disabled"),
      type |-> Attr(attrs, "type"),
      label |-> Attr(attrs, "label"),
      inline |-> Attr(attrs, "inline"),
      onChange |-> [option |-> option, value |-> p.value]]

\* the <div><input/><label/></div> element of one option (native branch)
NativeElement(option, p, value) ==
  LET isChecked == checked(option, value)
  IN [component |-> "div",
      key |-> option.value,
      id |-> Undefined,
      checked |-> isChecked,
      className |-> Str(classNames(<<Str(FormCheck),
                       And(p.inline, Str(FormCheckInline))>>)),
      inputClassName |-> Str(classNames(<<Str(FormCheckInput),
                                          p.inputClassName>>)),
      labelClassName |-> Str(classNames(<<Str(FormCheckLabel),
                               p.labelClassName,
                               And(isChecked, p.labelCheckedClassName)>>)),
      disabled |-> disabledAttr(option),
      type |-> Str(Checkbox),
      label |-> option.label,
      inline |-> Undefined,
      onChange |-> [option |-> option, value |-> p.value]]

\* listItem(option); h is the heap, p.value the array the props refer to
listItem(option, p, h) ==
  IF customMode(p) THEN CustomInputElement(option, p, h[p.value])
  ELSE NativeElement(option, p, h[p.value])

\* render(): options.map(option => this.listItem(option))
render(p, h) == [k \in 1..Len(p.options) |-> listItem(p.options[k], p, h)]

(* ---------------- heap ---------------- *)
Fresh(h) == CHOOSE r \in 0..Cardinality(DOMAIN h) : r \notin DOMAIN h

Restrict(h, live) == [r \in (DOMAIN h) \cap live |-> h[r]]

CallRefs(cs) == UNION {{cs[k].arg, cs[k].read} : k \in 1..Len(cs)}

ItemRefs(its) == {its[k].onChange.value : k \in 1..Len(its)}

(* ---------------- change handlers ---------------- *)
\* variant of onChangeCustom that pushes onto / splices the array it read
onChangeCustomInPlace(closure, h) ==
  LET option == closure.option
      value == h[closure.value]
      newValue == IF contains(option.value, value)
                  THEN without(<<option.value>>, value)
                  ELSE append(option.value, value)
  IN [heap |-> [h EXCEPT ![closure.value] = newValue], arg |-> closure.value]

\* onChange of the custom branch: the heap after the handler ran and the
\* array it hands to setProps({value: newValue})
onChangeCustom(closure, h) ==
  LET option == closure.option
      value == h[closure.value]
      newValue == IF contains(option.value, value)
                  THEN without(<<option.value>>, value)
                  ELSE append(option.value, value)
      r == Fresh(h)
  IN [heap |-> (r :> newValue) @@ h, arg |-> r]

\* variant of onChangeNative that selects the option alone (radio behaviour)
onChangeNativeRadio(closure, h) ==
  LET option == closure.option
      value == h[closure.value]
      newValue == IF contains(option.value, value)
                  THEN without(<<option.value>>, value)
                  ELSE <<option.value>>
      r == Fresh(h)
  IN [heap |-> (r :> newValue) @@ h, arg |-> r]

\* onChange of the native branch
onChangeNative(closure, h) ==
  LET option == closure.option
      value == h[closure.value]
      newValue == IF contains(option.value, value)
                  THEN without(<<option.value>>, value)
                  ELSE append(option.value, value)
      r == Fresh(h)
  IN [heap |-> (r :> newValue) @@ h, arg |-> r]

\* CustomInput passes disabled and onChange to its input: a disabled
\* control does not invoke onChange
CustomInputFires(item) == ~Truthy(item.disabled)

\* <input disabled={...} onChange={...}/>: a disabled input gets no event
NativeInputFires(item) == ~Truthy(item.disabled)

Fires(item) ==
  IF item.component = "CustomInput" THEN CustomInputFires(item)
  ELSE NativeInputFires(item)

(* ---------------- state machine ---------------- *)
\* Checklist.defaultProps, with an id so that custom mode is selected
DefaultFlags ==
  [id |-> Str("grp"), custom |-> Bool(TRUE), switch |-> Undefined,
   inline |-> Undefined, inputClassName |-> Str(""),
   labelClassName |-> Str(""), labelCheckedClassName |-> Undefined]

\* the values each flag and class prop is drawn from
FlagValues ==
  [id |-> {Undefined, Str(""), Str("grp")},
   custom |-> {Bool(TRUE), Bool(FALSE)},
   switch |-> {Undefined, Bool(TRUE)},
   inline |-> {Undefined},
   inputClassName |-> {Str(""), Str("in")},
   labelClassName |-> {Str(""), Str("lb")},
   labelCheckedClassName |-> {Undefined, Str("on")}]

Flags ==
  [id : FlagValues.id, custom : FlagValues.custom, switch : FlagValues.switch,
   inline : FlagValues.inline, inputClassName : FlagValues.inputClassName,
   labelClassName : FlagValues.labelClassName,
   labelCheckedClassName : FlagValues.labelCheckedClassName]

None == [option |-> 0, before |-> <<>>]

\* construction and first render with props p, p.value referring to v
Mount(p, v) ==
  /\ props = p
  /\ heap = (0 :> v)
  /\ items = render(p, heap)
  /\ calls = <<>>
  /\ initial = v
  /\ applied = None

Init ==
  \E os \in OptionLists(Option, MaxOptions), v \in SeqsUpTo(SelectionValues, MaxLen),
     c \in BOOLEAN :
    Mount([DefaultFlags EXCEPT !.custom = Bool(c)]
            @@ [options |-> os, value |-> 0], v)

InitRender ==
  \E os \in OptionLists(RenderOption, MaxOptions),
     v \in {<<>>, <<Num(2)>>}, f \in Flags :
    Mount(f @@ [options |-> os, value |-> 0], v)

\* the user changes the control of item i; its handler calls setProps, and
\* the caller keeps the notified array (replacing one it has not applied yet)
Change(i) ==
  /\ i \in 1..Len(items)
  /\ Fires(items[i])
  /\ LET item == items[i]
         r == IF item.component = "CustomInput"
              THEN onChangeCustom(item.onChange, heap)
              ELSE onChangeNative(item.onChange, heap)
         call == [arg |-> r.arg, option |-> i,
                  read |-> item.onChange.value,
                  before |-> heap[item.onChange.value],
                  supplied |-> props.value]
     IN /\ calls' = <<call>>
        /\ heap' = Restrict(r.heap, {props.value} \cup ItemRefs(items)
                                      \cup CallRefs(<<call>>))
  /\ UNCHANGED <<props, items, initial, applied>>

\* variant of FeedBack in which the new props do not lead to a new render
FeedBackNoRender ==
  /\ calls # <<>>
  /\ LET p2 == [props EXCEPT !.value = Head(calls).arg]
     IN /\ props' = p2
        /\ heap' = Restrict(heap, {p2.value} \cup ItemRefs(items))
  /\ calls' = <<>>
  /\ applied' = [option |-> Head(calls).option, before |-> Head(calls).before]
  /\ UNCHANGED <<initial, items>>

\* the caller passes the array it was notified of back as the value prop and
\* the component renders again
FeedBack ==
  /\ calls # <<>>
  /\ LET p2 == [props EXCEPT !.value = Head(calls).arg]
         h2 == Restrict(heap, {p2.value})
     IN /\ props' = p2
        /\ heap' = h2
        /\ items' = render(p2, h2)
  /\ calls' = <<>>
  /\ applied' = [option |-> Head(calls).option, before |-> Head(calls).before]
  /\ UNCHANGED initial

\* the caller renders the component again with one flag or class changed
SetFlags(n, v) ==
  /\ v \in FlagValues[n]
  /\ v # props[n]
  /\ LET p2 == [props EXCEPT ![n] = v]
     IN /\ props' = p2
        /\ items' = render(p2, heap)
  /\ UNCHANGED <<heap, calls, initial, applied>>

Next == (\E i \in 1..MaxOptions : Change(i)) \/ FeedBack

Spec == Init /\ [][Next]_vars

NextRender ==
  \/ \E i \in 1..MaxOptions : Change(i)
  \/ FeedBack
  \/ \E n \in DOMAIN FlagValues : \E v \in FlagValues[n] : SetFlags(n, v)

SpecRender == InitRender /\ [][NextRender]_vars

(* ---------------- properties ---------------- *)
Elems(seq) == {seq[k] : k \in 1..Len(seq)}

\* the elements of seq different from v, in their order
Others(seq, v) == SelectSeq(seq, LAMBDA x : x # v)

NoDup(seq) == \A j, k \in 1..Len(seq) : seq[j] = seq[k] => j = k

OptionValue(i) == props.options[i].value

Pending == {calls[k] : k \in 1..Len(calls)}

\* the selection currently passed as the value prop
Selection == heap[props.value]

\* C1: the array handed to setProps is the selection the handler read with
\* every occurrence of the option's value removed (the rest in order) when
\* the value was a member, and with the value appended at the end otherwise.
C1_ToggleResult ==
  \A e \in Pending :
    LET v == OptionValue(e.option)
    IN IF v \in Elems(e.before)
       THEN heap[e.arg] = Others(e.before, v)
       ELSE /\ Len(heap[e.arg]) = Len(e.before) + 1
            /\ SubSeq(heap[e.arg], 1, Len(e.before)) = e.before
            /\ heap[e.arg][Len(e.before) + 1] = v

\* options 1 and 2, selection [1]: toggling 2 was notified and applied
\* ([1,2]) and toggling 1 is now notified as [2]
C1_Witness ==
  /\ Len(props.options) = 2
  /\ OptionValue(1) = Num(1) /\ OptionValue(2) = Num(2)
  /\ initial = <<Num(1)>>
  /\ applied = [option |-> 2, before |-> <<Num(1)>>]
  /\ \E e \in Pending : /\ e.option = 1
                         /\ e.before = <<Num(1), Num(2)>>
                         /\ heap[e.arg] = <<Num(2)>>

\* C2: the option's value is a member of the notified array iff it was not
\* a member of the selection read (1 and "1" being different values), and
\* after the caller applies it the item's checked flag is inverted.
C2_ToggleInvertsMembership ==
  /\ \A e \in Pending :
       (OptionValue(e.option) \in Elems(heap[e.arg]))
         <=> (OptionValue(e.option) \notin Elems(e.before))
  /\ applied.option # 0 =>
       items[applied.option].checked
         = Bool(OptionValue(applied.option) \notin Elems(applied.before))

\* option 1 toggled against a selection holding "1" twice and not 1
C2_Witness ==
  \E e \in Pending :
    /\ OptionValue(e.option) = Num(1)
    /\ e.before = <<Str("1"), Str("1")>>
    /\ heap[e.arg] = <<Str("1"), Str("1"), Num(1)>>

\* C3: toggling the same option twice (the caller having applied the first
\* notification) notifies an array with the same set of values as the
\* selection before the first toggle.
C3_DoubleToggleSetEqual ==
  \A e \in Pending :
    (e.option = applied.option /\ e.read = props.value)
      => Elems(heap[e.arg]) = Elems(applied.before)

\* a double toggle of a value held twice: [1,1] -> [] -> [1]
C3_Witness ==
  \E e \in Pending :
    /\ e.option = applied.option
    /\ e.read = props.value
    /\ applied.before = <<Num(1), Num(1)>>
    /\ heap[e.arg] = <<Num(1)>>

\* C4: a handler leaves the array it read as it was, hands setProps another
\* array than the one passed as value, and the rendered handlers refer to no
\* array but the one currently passed as value.
C4_NoMutation ==
  /\ \A e \in Pending :
       /\ e.read \in DOMAIN heap
       /\ heap[e.read] = e.before
       /\ e.arg # e.read
       /\ e.arg # props.value
  /\ ItemRefs(items) \subseteq {props.value}
  /\ calls = <<>> => DOMAIN heap = {props.value}

\* a custom-mode handler has run on a non-empty selection
C4_Witness ==
  \E e \in Pending :
    /\ items[e.option].component = "CustomInput"
    /\ e.before # <<>>
    /\ heap[e.arg] # e.before
    /\ applied.option # 0

\* C5: an item whose option is disabled never notifies, so (option values
\* being unique) its value is in the selection iff it was initially; the
\* item is rendered disabled with its label and its checked flag.
C5_DisabledNeverToggled ==
  NoDup([k \in 1..Len(props.options) |-> OptionValue(k)]) =>
    \A i \in 1..Len(props.options) :
      Truthy(props.options[i].disabled) =>
        /\ \A e \in Pending : e.option # i
        /\ applied.option # i
        /\ (OptionValue(i) \in Elems(Selection))
             <=> (OptionValue(i) \in Elems(initial))
        /\ \A e \in Pending :
             (OptionValue(i) \in Elems(heap[e.arg]))
               <=> (OptionValue(i) \in Elems(initial))
        /\ items[i].disabled = Bool(TRUE)
        /\ items[i].label = props.options[i].label
        /\ items[i].checked = Bool(OptionValue(i) \in Elems(Selection))

\* a checked disabled option rendered natively next to an enabled one that
\* was toggled twice
C5_Witness ==
  /\ Len(props.options) = 2
  /\ props.options[1].disabled = Bool(TRUE)
  /\ props.options[2].disabled = Undefined
  /\ items[1].component = "div"
  /\ items[1].checked = Bool(TRUE)
  /\ applied.option = 2
  /\ \E e \in Pending : e.option = 2

CustomItems == {k \in 1..Len(items) : items[k].component = "CustomInput"}

\* C6: in custom mode two options with different values get different
\* derived identifiers.
C6_DerivedIdsUnique ==
  \A j, k \in CustomItems :
    OptionValue(j) # OptionValue(k) => items[j].id # items[k].id

\* the class attributes an item's control receives
ReceivedClasses(item) ==
  {item.className, item.inputClassName, item.labelClassName}

\* the caller's label class, with the checked-label class when checked
MergedLabelClass(isChecked) ==
  LET base == IF props.labelClassName.s = "" THEN <<>>
              ELSE <<props.labelClassName.s>>
      on == IF isChecked /\ Truthy(props.labelCheckedClassName)
            THEN <<props.labelCheckedClassName.s>> ELSE <<>>
      parts == base \o on
  IN IF parts = <<>> THEN ""
     ELSE IF Len(parts) = 1 THEN parts[1]
     ELSE parts[1] \o " " \o parts[2]

\* C7: in custom mode the control receives the caller's input class
\* alongside the merged label class.
C7_InputClassForwarded ==
  \A k \in CustomItems :
    /\ props.inputClassName \in ReceivedClasses(items[k])
    /\ Str(MergedLabelClass(items[k].checked = Bool(TRUE)))
         \in ReceivedClasses(items[k])

\* id is a non-empty string and custom is true
CustomSelected ==
  /\ props.id.t = "string" /\ props.id.s # ""
  /\ props.custom = Bool(TRUE)

C9_ReadsCurrentSelection ==
  /\ \A k \in 1..Len(items) : items[k].onChange.value = props.value
  /\ \A e \in Pending :
       /\ e.read = e.supplied
       /\ (applied.option # 0 /\ e.option # applied.option
            /\ OptionValue(e.option) # OptionValue(applied.option)) =>
            ((OptionValue(applied.option) \in Elems(heap[e.arg]))
               <=> (OptionValue(applied.option) \notin Elems(applied.before)))

\* toggle of option 2 applied, then option 1 toggled: [] -> [2] -> [2,1]
C9_Witness ==
  /\ applied = [option |-> 2, before |-> <<>>]
  /\ \E e \in Pending : /\ e.option = 1
                         /\ e.read = props.value
                         /\ Len(heap[e.arg]) = 2
                         /\ heap[e.arg][1] = OptionValue(2)
                         /\ heap[e.arg][2] = OptionValue(1)

\* C10: a toggle keeps every value other than the option's, as often and in
\* the same order; a selection that started without duplicates has none
\* later and holds only initial values and values of toggled options.
C10_OthersUntouched ==
  /\ \A e \in Pending :
       /\ Others(heap[e.arg], OptionValue(e.option))
            = Others(e.before, OptionValue(e.option))
       /\ Elems(heap[e.arg]) \subseteq Elems(e.before) \cup {OptionValue(e.option)}
       /\ NoDup(initial) => NoDup(heap[e.arg])
  /\ NoDup(initial) => NoDup(Selection)
  /\ Elems(Selection) \subseteq
       Elems(initial) \cup {OptionValue(k) : k \in {j \in 1..Len(items) : Fires(items[j])}}

\* a native-mode toggle removed the middle value of [1,2,"1"], keeping a
\* value that belongs to no option
C10_Witness ==
  \E e \in Pending :
    /\ items[e.option].component = "div"
    /\ OptionValue(e.option) = Num(2)
    /\ e.before = <<Num(1), Num(2), Str("1")>>
    /\ heap[e.arg] = <<Num(1), Str("1")>>
    /\ \A k \in 1..Len(props.options) : OptionValue(k) # Num(1)

====
